---- MODULE Spec2Model ----
(***************************************************************************)
(* GAIA hazard ingestion: the enhanced RSS processor                       *)
(* (backend/python/pipeline/rss_processor_enhanced.py) and the Nominatim   *)
(* geocoding rate limiter (backend/python/utils/geocoding.py,              *)
(* backend/python/citizen_reports.py).                                     *)
(*                                                                         *)
(* Units.  Coordinates are hundredths of a degree (14.60 N = 1460).        *)
(* Confidence scores and thresholds are hundredths (0.70 = 70).            *)
(* The pipeline clock counts hours; the geocoder clock counts half         *)
(* seconds.  Text is a sequence of one-character strings; a markup tag is  *)
(* one token that starts with "<".  An Optional value is <<>> (None) or    *)
(* <<v>>.  SHA-256 is taken to be injective: a content hash is the         *)
(* normalized text it digests.                                             *)
(***************************************************************************)
EXTENDS Integers, Sequences, FiniteSets, TLC

VARIABLES
    feeds,          \* self.feeds
    stats,          \* self.stats
    cache,          \* self._confidence_threshold_rss / _citizen
    system_config,  \* gaia.system_config rows for the two threshold keys
    hazards,        \* gaia.hazards, in insertion order
    clock,          \* datetime.utcnow(), in hours
    pc,             \* position of the process_all_feeds coroutine
    runs,           \* number of process_all_feeds calls started
    runFeeds,       \* the list object the for loop of process_all_feeds iterates
    feedIdx,        \* index of the feed being processed
    feed,           \* feed.entries of the feed being processed
    entryIdx,       \* index of the next entry of feed.entries
    cur,            \* locals of process_feed: items_processed, items_added, ...
    results,        \* the results list of process_all_feeds
    last,           \* what the last step did (the step's log lines)
    faults,         \* number of failures injected so far
    gclock,         \* time.time(), in half seconds
    geo_last,       \* utils.geocoding._last_nominatim_call_time
    cit_last,       \* citizen_reports._last_nominatim_call_time
    lock,           \* holder of utils.geocoding._nominatim_lock, or "free"
    callers,        \* one record per geocoding call in progress
    sent,           \* times at which HTTP requests left for Nominatim
    task,           \* the task or endpoint that drives the run: feeds it selected,
                    \* rss_processing_logs rows and statistics it produced
    lookup,         \* the last call of _get_confidence_thresholds
    answer,         \* the last Nominatim answer and what the geocoder returned
    hashed,         \* the last two contents hashed and their hashes
    geocall,        \* the last call of get_coordinates_from_nominatim_sync / _async
    runners,        \* runs in two processes on one store: the Celery task and
                    \* the manual endpoint, each at its current entry
    requests        \* manual requests served by one event loop on the shared
                    \* rss_processor_enhanced instance

rssVars == <<feeds, stats, cache, system_config, hazards, clock, pc, runs,
             runFeeds, feedIdx, feed, entryIdx, cur, results, last, faults, task>>
geoVars == <<gclock, geo_last, cit_last, lock, callers, sent>>
auxVars == <<lookup, answer, hashed, geocall, runners, requests>>
vars == <<feeds, stats, cache, system_config, hazards, clock, pc, runs,
          runFeeds, feedIdx, feed, entryIdx, cur, results, last, faults, task,
          gclock, geo_last, cit_last, lock, callers, sent, lookup, answer, hashed,
          geocall, runners, requests>>

None == <<>>
Some(v) == <<v>>

\* Python truthiness of an Optional number: None and 0 are falsy.
Truthy(x) == x # None /\ x[1] # 0

(***************************************************************************)
(* Bounds of the model.                                                    *)
(***************************************************************************)
MaxRuns == 2
MaxFaults == 1
TickHours == 49
MaxClock == 49

(***************************************************************************)
(* Text.                                                                   *)
(***************************************************************************)
IsSpace(c) == c \in {" ", "\t", "\n"}
IsTag(c) == c \in {"<b>", "</b>", "<p>"}

Lower(c) ==
    CASE c = "F" -> "f"
      [] c = "Q" -> "q"
      [] c = "M" -> "m"
      [] OTHER -> c

\* ' '.join(s.split()): runs of whitespace become one space, none at the ends.
JoinSplit(s) ==
    LET F[i \in 0..Len(s)] ==
            IF i = 0 THEN <<>>
            ELSE LET prev == F[i - 1]
                 IN  IF IsSpace(s[i])
                     THEN IF prev = <<>> \/ prev[Len(prev)] = " "
                          THEN prev
                          ELSE Append(prev, " ")
                     ELSE Append(prev, s[i])
        r == F[Len(s)]
    IN  IF r # <<>> /\ r[Len(r)] = " " THEN SubSeq(r, 1, Len(r) - 1) ELSE r

\* str.strip()
RECURSIVE Strip(_)
Strip(s) ==
    IF s = <<>> THEN s
    ELSE IF IsSpace(s[1]) THEN Strip(Tail(s))
    ELSE IF IsSpace(s[Len(s)]) THEN Strip(SubSeq(s, 1, Len(s) - 1))
    ELSE s

\* _clean_html: tags dropped (text pieces joined by ' '), whitespace collapsed
_clean_html(html_text) ==
    IF html_text = <<>> THEN <<>>
    ELSE JoinSplit([i \in 1..Len(html_text) |->
                        IF IsTag(html_text[i]) THEN " " ELSE html_text[i]])

\* _extract_content: the entry's content element is not modelled apart from
\* the summary; entries of the model carry no separate body.
_extract_content(entry) ==
    LET description_clean == _clean_html(entry.summary)
        content_clean == _clean_html(entry.content)
    IN  [title |-> entry.title,
         description |-> description_clean,
         content |-> content_clean,
         text |-> Strip(entry.title \o <<".", " ">> \o description_clean
                        \o <<" ">> \o content_clean)]

_generate_content_hash(content_data) ==
    LET combined_text == content_data.title \o content_data.description
    IN  JoinSplit([i \in 1..Len(combined_text) |-> Lower(combined_text[i])])

(***************************************************************************)
(* Feed URLs.  A feed is named by a key; Urls gives the scheme and the     *)
(* netloc urlparse finds in its text.                                      *)
(***************************************************************************)
Urls ==
    [gma_news |-> [scheme |-> "https", netloc |-> <<"g", "m", "a">>],
     gma_pa   |-> [scheme |-> "https", netloc |-> <<"g", "m", "a">>],
     inquirer |-> [scheme |-> "https", netloc |-> <<"i", "n", "q">>],
     rappler  |-> [scheme |-> "https", netloc |-> <<"r", "a", "p">>],
     pagasa   |-> [scheme |-> "http", netloc |-> <<"p", "a", "g">>],
     loopback |-> [scheme |-> "http",
                   netloc |-> <<"1", "2", "7", ".", "0", ".", "0", ".", "1">>],
     private  |-> [scheme |-> "http",
                   netloc |-> <<"1", "0", ".", "0", ".", "0", ".", "5">>],
     ftp      |-> [scheme |-> "ftp", netloc |-> <<"g", "m", "a">>],
     empty    |-> [scheme |-> "", netloc |-> <<>>],
     \* http://u@10.0.0.5/feed: the netloc carries the userinfo
     userinfo |-> [scheme |-> "http",
                   netloc |-> <<"u", "@", "1", "0", ".", "0", ".", "0", ".", "5">>]]

\* urlparse(url).hostname: the netloc without userinfo
RECURSIVE hostname(_)
hostname(netloc) ==
    IF \E i \in 1..Len(netloc) : netloc[i] = "@"
    THEN hostname(Tail(netloc))
    ELSE netloc

DEFAULT_FEEDS == <<"gma_news", "gma_pa", "inquirer", "rappler">>

\* the lists callers hand to set_feeds
FeedLists ==
    {<<"loopback", "pagasa", "ftp">>, <<"private", "empty", "userinfo">>}

Contains(s, sub) ==
    \E i \in 1..(Len(s) - Len(sub) + 1) : SubSeq(s, i, i + Len(sub) - 1) = sub

StartsWith(s, p) == Len(s) >= Len(p) /\ SubSeq(s, 1, Len(p)) = p

blocked_hosts ==
    {<<"l", "o", "c", "a", "l", "h", "o", "s", "t">>,
     <<"1", "2", "7", ".", "0", ".", "0", ".", "1">>,
     <<"0", ".", "0", ".", "0", ".", "0">>,
     <<":", ":", "1">>}

\* re.match(r'^(10|172\.(1[6-9]|2[0-9]|3[01])|192\.168)\.', netloc)
PrivateIpPrefix(netloc) ==
    \/ StartsWith(netloc, <<"1", "0", ".">>)
    \/ StartsWith(netloc, <<"1", "9", "2", ".", "1", "6", "8", ".">>)
    \/ /\ StartsWith(netloc, <<"1", "7", "2", ".">>)
       /\ Len(netloc) >= 7
       /\ netloc[7] = "."
       /\ \/ netloc[5] = "1" /\ netloc[6] \in {"6", "7", "8", "9"}
          \/ netloc[5] = "2" /\ netloc[6] \in {"0", "1", "2", "3", "4", "5", "6", "7", "8", "9"}
          \/ netloc[5] = "3" /\ netloc[6] \in {"0", "1"}

_validate_url(url) ==
    LET parsed == Urls[url]
        lowered == [i \in 1..Len(parsed.netloc) |-> Lower(parsed.netloc[i])]
    IN  IF url = "empty" THEN FALSE
        ELSE IF parsed.scheme = "" \/ parsed.netloc = <<>> THEN FALSE
        ELSE IF parsed.scheme \notin {"http", "https"} THEN FALSE
        ELSE IF \E blocked \in blocked_hosts : Contains(lowered, blocked) THEN FALSE
        ELSE IF PrivateIpPrefix(parsed.netloc) THEN FALSE
        ELSE TRUE

RECURSIVE SelectSeq2(_, _)
SelectSeq2(s, keep) ==
    IF s = <<>> THEN <<>>
    ELSE IF s[1] \in keep THEN <<s[1]>> \o SelectSeq2(Tail(s), keep)
    ELSE SelectSeq2(Tail(s), keep)

\* set_feeds: validated_feeds = [url for url in feed_urls if self._validate_url(url)]
validated_feeds(feed_urls) ==
    SelectSeq2(feed_urls, {u \in DOMAIN Urls : _validate_url(u)})

(***************************************************************************)
(* Feed entries.  Each entry carries what feedparser delivers (link,       *)
(* title, summary, content) and what the two external capabilities answer  *)
(* for its text: the classifier's score and hazard type, and the location  *)
(* list of geo_ner.extract_locations.                                      *)
(***************************************************************************)
Loc(name, lat, lng) == [location_name |-> name, latitude |-> lat, longitude |-> lng]

Entries ==
    <<  \* 1: a flood in Manila, high confidence
        [link |-> "L1", title |-> <<"F", "l", " ", "M">>, summary |-> <<"<b>", "x", "</b>">>,
         content |-> <<>>, score |-> 85, hazard_type |-> "flooding",
         locations |-> <<Loc("Manila", Some(1460), Some(12100))>>],
        \* 2: the same event in other words, 2 km away, score on the default threshold
        [link |-> "L2", title |-> <<"Q">>, summary |-> <<"y">>,
         content |-> <<>>, score |-> 70, hazard_type |-> "flooding",
         locations |-> <<Loc("Pasay", Some(1461), Some(12101))>>],
        \* 3: Batanes waters at 21.5 N
        [link |-> "L3", title |-> <<"Q", "f">>, summary |-> <<>>,
         content |-> <<>>, score |-> 60, hazard_type |-> "typhoon",
         locations |-> <<Loc("Luzon Strait", Some(2150), Some(12100))>>],
        \* 4: first location without coordinates, second one 1 km from entry 1
        [link |-> "L4", title |-> <<"m">>, summary |-> <<"y", "y">>,
         content |-> <<>>, score |-> 90, hazard_type |-> "fire",
         locations |-> <<Loc("Metro", None, None), Loc("Manila", Some(1461), Some(12100))>>],
        \* 5: a location list without any coordinates
        [link |-> "L5", title |-> <<"q", "q">>, summary |-> <<>>,
         content |-> <<>>, score |-> 75, hazard_type |-> "landslide",
         locations |-> <<Loc("Somewhere", None, None)>>],
        \* 6: entry 1 republished without link, other case and spacing, in Cebu
        [link |-> "", title |-> <<"f", "l", " ", " ", "m">>, summary |-> <<" ", "x">>,
         content |-> <<>>, score |-> 80, hazard_type |-> "flooding",
         locations |-> <<Loc("Cebu", Some(1030), Some(12390))>>],
        \* 7: not a hazard
        [link |-> "L7", title |-> <<"x", "y">>, summary |-> <<"x">>,
         content |-> <<>>, score |-> 30, hazard_type |-> "",
         locations |-> <<>>],
        \* 8: a hazard for which no location is extracted
        [link |-> "L8", title |-> <<"y", "x">>, summary |-> <<"x">>,
         content |-> <<>>, score |-> 88, hazard_type |-> "earthquake",
         locations |-> <<>>],
        \* 9: a hazard in Tokyo
        [link |-> "L9", title |-> <<"y", "q">>, summary |-> <<>>,
         content |-> <<>>, score |-> 95, hazard_type |-> "tsunami",
         locations |-> <<Loc("Tokyo", Some(3568), Some(13969))>>],
        \* 10: nothing but markup and blanks
        [link |-> "L10", title |-> <<>>, summary |-> <<"<p>", " ">>,
         content |-> <<"<b>", "</b>">>, score |-> 0, hazard_type |-> "",
         locations |-> <<>>],
        \* 11: entry 1 syndicated under another link, located in Davao
        [link |-> "L11", title |-> <<"f", "l", " ", "m">>, summary |-> <<"x">>,
         content |-> <<>>, score |-> 85, hazard_type |-> "flooding",
         locations |-> <<Loc("Davao", Some(707), Some(12561))>>],
        \* 12: a fire 1 km from the flood of entry 1
        [link |-> "L12", title |-> <<"m", "q">>, summary |-> <<"y">>,
         content |-> <<>>, score |-> 90, hazard_type |-> "fire",
         locations |-> <<Loc("Manila", Some(1460), Some(12101))>>] >>

\* what feedparser.parse delivers for each feed when the fetch succeeds
FeedEntries ==
    [gma_news |-> <<1, 2, 3>>,
     gma_pa   |-> <<4, 5>>,
     inquirer |-> <<6, 7>>,
     rappler  |-> <<8, 9, 10>>,
     pagasa   |-> <<1, 6, 12>>,
     userinfo |-> <<10, 11>>]

(***************************************************************************)
(* The classifier (backend/python/models/classifier.py).                   *)
(***************************************************************************)
classification_threshold == 50

classify(entry, threshold) ==
    [hazard_type |-> entry.hazard_type,
     score |-> entry.score,
     is_hazard |-> entry.score >= threshold /\ entry.hazard_type # ""]

(***************************************************************************)
(* Confidence thresholds.                                                  *)
(***************************************************************************)
DEFAULT_RSS_THRESHOLD == 70
DEFAULT_CITIZEN_THRESHOLD == 50

Row(present, numeric, value) == [present |-> present, numeric |-> numeric, value |-> value]

\* contents of gaia.system_config the model starts from
ConfigChoices ==
    {[rss |-> Row(FALSE, TRUE, 0), citizen |-> Row(FALSE, TRUE, 0)],
     [rss |-> Row(TRUE, TRUE, 85), citizen |-> Row(TRUE, TRUE, 60)]}

\* _get_confidence_thresholds; fault: the select raises.  Rows are converted
\* in the order rss, citizen; float() raises on a non-numeric value.
\* Returns the pair and the cache it leaves behind.
Thresholds(rss, citizen, c, raised) ==
    [rss |-> rss, citizen |-> citizen, cache |-> c, raised |-> raised]

\* a cache that is never trusted
Cached_Never(c) == FALSE

\* if self._confidence_threshold_rss is not None and
\*    self._confidence_threshold_citizen is not None   (line 108)
Cached(c) == c.rss # None /\ c.citizen # None

\* a handler that answers with what was converted before the failure
OnConfigError_Partial(c) ==
    Thresholds(IF c.rss = None THEN DEFAULT_RSS_THRESHOLD ELSE c.rss[1],
               IF c.citizen = None THEN DEFAULT_CITIZEN_THRESHOLD ELSE c.citizen[1],
               c, TRUE)

\* except Exception: return 0.70, 0.50   (lines 133-136); the attributes
\* assigned before the exception stay assigned
OnConfigError(c) ==
    Thresholds(DEFAULT_RSS_THRESHOLD, DEFAULT_CITIZEN_THRESHOLD, c, TRUE)

\* a default that overrides the stored value
DefaultIfMissing_Always(v, d) == Some(d)

\* if self._confidence_threshold_x is None: self._confidence_threshold_x = d
DefaultIfMissing(v, d) == IF v = None THEN Some(d) ELSE v

_get_confidence_thresholds(c, config, fault) ==
    IF Cached(c)
    THEN Thresholds(c.rss[1], c.citizen[1], c, FALSE)
    ELSE IF fault
    THEN OnConfigError(c)
    ELSE IF config.rss.present /\ ~config.rss.numeric
    THEN OnConfigError(c)
    ELSE LET c1 == IF config.rss.present
                   THEN [c EXCEPT !.rss = Some(config.rss.value)] ELSE c
         IN  IF config.citizen.present /\ ~config.citizen.numeric
             THEN OnConfigError(c1)
             ELSE LET c2 == IF config.citizen.present
                            THEN [c1 EXCEPT !.citizen = Some(config.citizen.value)] ELSE c1
                      c3 == [rss |-> DefaultIfMissing(c2.rss, DEFAULT_RSS_THRESHOLD),
                             citizen |-> DefaultIfMissing(c2.citizen,
                                                          DEFAULT_CITIZEN_THRESHOLD)]
                  IN  Thresholds(c3.rss[1], c3.citizen[1], c3, FALSE)

(***************************************************************************)
(* The hazards store and its three duplicate lookups.                      *)
(***************************************************************************)
duplicate_time_window == 48
RADIUS_KM == 5

\* a lookup on the wrong column
ByUrl_WrongColumn(hz, url) == {i \in 1..Len(hz) : hz[i].source = url}

\* .eq('source_url', url).limit(1)
ByUrl(hz, url) == {i \in 1..Len(hz) : hz[i].source_url = url}

\* a hash lookup without the time window
ByHash_NoWindow(hz, content_hash, now) ==
    {i \in 1..Len(hz) : hz[i].content_hash = content_hash}

\* .eq('content_hash', h).gte('detected_at', now - window).limit(1)
ByHash(hz, content_hash, now) ==
    {i \in 1..Len(hz) : /\ hz[i].content_hash = content_hash
                        /\ hz[i].detected_at >= now - duplicate_time_window}

\* Squared distance in km^2 times 100 on a plane, 1.11 km to the hundredth
\* of a degree.
Dist2(lat1, lng1, lat2, lng2) ==
    ((lat1 - lat2) * (lat1 - lat2) + (lng1 - lng2) * (lng1 - lng2)) * 123

\* gaia.get_nearby_hazards(ref_lat, ref_lng, radius_km, time_window_hours)
get_nearby_hazards(hz, ref_lat, ref_lng, radius_km, time_window_hours, now) ==
    {i \in 1..Len(hz) :
        /\ Dist2(hz[i].latitude, hz[i].longitude, ref_lat, ref_lng)
              <= radius_km * radius_km * 100
        /\ hz[i].detected_at >= now - time_window_hours}

First(S) == CHOOSE i \in S : \A j \in S : i <= j

NotDuplicate(raised) ==
    [is_duplicate |-> FALSE, duplicate_id |-> None, strategy |-> "none", raised |-> raised]

\* a lookup failure that blocks the entry
OnLookupError_Block ==
    [is_duplicate |-> TRUE, duplicate_id |-> None, strategy |-> "none", raised |-> TRUE]

\* except Exception: return False, None   (lines 495-498)
OnLookupError == NotDuplicate(TRUE)

Duplicate(hz, S, strategy) ==
    [is_duplicate |-> TRUE, duplicate_id |-> Some(hz[First(S)].id),
     strategy |-> strategy, raised |-> FALSE]

\* The geospatial strategy is consulted for a location whose two coordinates
\* are truthy.
HasCoordinates(location) ==
    location # None /\ Truthy(location[1].latitude) /\ Truthy(location[1].longitude)

\* a search within one kilometre
NearbyQuery_OneKm(hz, location, now) ==
    get_nearby_hazards(hz, location[1].latitude[1], location[1].longitude[1], 1,
                       duplicate_time_window, now)

\* rpc('get_nearby_hazards', {ref_lat, ref_lng, radius_km: 5.0,
\* time_window_hours: self.duplicate_time_window})   (lines 479-487)
NearbyQuery(hz, location, now) ==
    get_nearby_hazards(hz, location[1].latitude[1], location[1].longitude[1], RADIUS_KM,
                       duplicate_time_window, now)

\* the verdict together with the lookups that were issued to reach it
Issued(ret, queries) ==
    [is_duplicate |-> ret.is_duplicate, duplicate_id |-> ret.duplicate_id,
     strategy |-> ret.strategy, raised |-> ret.raised, queries |-> queries]

\* a lookup whose rows are never looked at
HasData_Never(response_data) == FALSE

\* `if response.data:`
HasData(response_data) == response_data # {}

\* _check_duplicate; fault names the lookup that raises ("none": no lookup does)
_check_duplicate(url, content_data, location, hz, now, fault) ==
    LET q1 == IF url # "" THEN <<"url">> ELSE <<>>
        q2 == Append(q1, "hash")
        q3 == Append(q2, "geo")
    IN
    IF url # "" /\ fault = "url" THEN Issued(OnLookupError, q1)
    ELSE IF url # "" /\ HasData(ByUrl(hz, url))
    THEN Issued(Duplicate(hz, ByUrl(hz, url), "url"), q1)
    ELSE IF fault = "hash" THEN Issued(OnLookupError, q2)
    ELSE LET content_hash == _generate_content_hash(content_data)
         IN  IF HasData(ByHash(hz, content_hash, now))
             THEN Issued(Duplicate(hz, ByHash(hz, content_hash, now), "hash"), q2)
             ELSE IF HasCoordinates(location)
             THEN IF fault = "geo" THEN Issued(OnLookupError, q3)
                  ELSE LET near == NearbyQuery(hz, location, now)
                       IN  IF HasData(near) THEN Issued(Duplicate(hz, near, "geo"), q3)
                           ELSE Issued(NotDuplicate(FALSE), q3)
             ELSE Issued(NotDuplicate(FALSE), q2)

(***************************************************************************)
(* Persistence.                                                            *)
(***************************************************************************)
SAVE_LAT_MIN == 400
SAVE_LAT_MAX == 2200
SAVE_LNG_MIN == 11600
SAVE_LNG_MAX == 12700

\* primary location: the first one whose two coordinates are truthy
RECURSIVE PrimaryLocation(_)
PrimaryLocation(locations) ==
    IF locations = <<>> THEN None
    ELSE IF Truthy(locations[1].latitude) /\ Truthy(locations[1].longitude)
    THEN Some(locations[1])
    ELSE PrimaryLocation(Tail(locations))

\* if not (4.0 <= lat <= 22.0 and 116.0 <= lng <= 127.0): return None
InsideSaveBox(lat, lng) ==
    SAVE_LAT_MIN <= lat /\ lat <= SAVE_LAT_MAX /\ SAVE_LNG_MIN <= lng /\ lng <= SAVE_LNG_MAX

\* a strict comparison
AutoValidated_Strict(confidence_score, rss_threshold) == confidence_score > rss_threshold

\* hazard_type_mapping.get(classification['hazard_type'].lower(), 'other')
hazard_type_mapping(hazard_type) ==
    CASE hazard_type = "flooding" -> "flood"
      [] hazard_type \in {"fire", "earthquake", "typhoon", "landslide", "drought",
                          "tsunami", "tornado"} -> hazard_type
      [] hazard_type = "volcanic eruption" -> "volcanic_eruption"
      [] hazard_type = "storm surge" -> "storm_surge"
      [] OTHER -> "other"

\* auto_validated = confidence_score >= rss_threshold
AutoValidated(confidence_score, rss_threshold) == confidence_score >= rss_threshold

NotSaved(c, why) == [hazard_id |-> None, row |-> None, cache |-> c, why |-> why,
                     rss_threshold |-> None, config_raised |-> FALSE]

\* _save_hazard_to_db; fault: "insert_raise" (the insert raises),
\* "insert_norow" (it returns no row) or "none"; cfgFault: the threshold
\* select raises.  Returns the id (or None), the row inserted and the
\* threshold cache the call leaves behind.
_save_hazard_to_db(entry, content_data, classification, locations, feed_url, hz, c, config, now, fault, cfgFault) ==
    LET primary_location == PrimaryLocation(locations)
    IN  IF primary_location = None THEN NotSaved(c, "no_coordinates")
        ELSE
        LET lat == primary_location[1].latitude[1]
            lng == primary_location[1].longitude[1]
        IN  IF ~InsideSaveBox(lat, lng) THEN NotSaved(c, "outside")
            ELSE
            LET th == _get_confidence_thresholds(c, config, cfgFault)
                confidence_score == classification.score
                auto_validated == AutoValidated(confidence_score, th.rss)
                hazard_data ==
                    [id |-> Len(hz) + 1,
                     hazard_type |-> hazard_type_mapping(classification.hazard_type),
                     latitude |-> lat,
                     longitude |-> lng,
                     location_name |-> primary_location[1].location_name,
                     confidence_score |-> confidence_score,
                     source_url |-> entry.link,
                     validated |-> auto_validated,
                     validated_at |-> IF auto_validated THEN Some(now) ELSE None,
                     validation_notes |->
                         IF auto_validated
                         THEN Some(<<confidence_score, th.rss>>) ELSE None,
                     detected_at |-> now,
                     content_hash |-> _generate_content_hash(content_data),
                     source |-> feed_url]
            IN  IF fault \in {"insert_raise", "insert_norow"}
                THEN [NotSaved(th.cache, fault) EXCEPT !.rss_threshold = Some(th.rss),
                                                       !.config_raised = th.raised]
                ELSE [hazard_id |-> Some(hazard_data.id), row |-> Some(hazard_data),
                      cache |-> th.cache, why |-> "saved",
                      rss_threshold |-> Some(th.rss), config_raised |-> th.raised]

(***************************************************************************)
(* process_feed: one iteration of the loop over feed.entries.              *)
(***************************************************************************)
\* What can go wrong while one entry is handled: an exception out of
\* _extract_content, classifier.classify or geo_ner.extract_locations
\* (step), a duplicate lookup that raises (dup), a failing insert (save),
\* a failing read of system_config (config).
Faults ==
    {[step |-> st, dup |-> "none", save |-> "none", config |-> FALSE] :
        st \in {"extract", "classify", "locate"}}
    \cup
    {[step |-> "none", dup |-> d, save |-> sv, config |-> cf] :
        d \in {"none", "url", "hash", "geo"},
        sv \in {"none", "insert_raise", "insert_norow"},
        cf \in BOOLEAN}

NoFault == [step |-> "none", dup |-> "none", save |-> "none", config |-> FALSE]

NoDup == [is_duplicate |-> FALSE, duplicate_id |-> None, strategy |-> "unchecked",
          raised |-> FALSE, queries |-> <<>>]

Outcome(outcome, errors, dup, save, c) ==
    [outcome |-> outcome, errors |-> errors, dup |-> dup, save |-> save, cache |-> c]

Unreached(c) == NotSaved(c, "unreached")

\* an entry exception that is not counted
OnEntryException_Uncounted(c) == Outcome("exception", 0, NoDup, Unreached(c), c)

\* except Exception: self.stats['errors'] += 1; continue   (lines 275-278)
OnEntryException(c) == Outcome("exception", 1, NoDup, Unreached(c), c)

\* a failed save that leaves no trace in the counters
OnSaveFailed_Uncounted(dup, save) == Outcome("save_failed", 0, dup, save, save.cache)

\* else: self.stats['errors'] += 1   (lines 267-269)
OnSaveFailed(dup, save) == Outcome("save_failed", 1, dup, save, save.cache)

\* the branch taken together with the pipeline steps that were called
Traced(body, steps) ==
    [outcome |-> body.outcome, errors |-> body.errors, dup |-> body.dup,
     save |-> body.save, cache |-> body.cache, steps |-> steps]

\* a gate every classified entry passes
IsHazard_Always(classification) == TRUE

\* `if classification['is_hazard']:`
IsHazard(classification) == classification.is_hazard

\* The body of the per-entry try block (lines 211-278): which branch is
\* taken, whether stats['errors'] is incremented, and what the duplicate
\* check and the save returned.
EntryBody(entry, feed_url, hz, c, config, now, fault) ==
    IF fault.step = "extract" THEN Traced(OnEntryException(c), <<"extract">>)
    ELSE
    LET content_data == _extract_content(entry)
    IN  IF Strip(content_data.text) = <<>>
        THEN Traced(Outcome("skipped_empty", 0, NoDup, Unreached(c), c), <<"extract">>)
        ELSE IF fault.step = "classify"
        THEN Traced(OnEntryException(c), <<"extract", "classify">>)
        ELSE
        LET classification == classify(entry, classification_threshold)
        IN  IF ~IsHazard(classification)
            THEN Traced(Outcome("not_hazard", 0, NoDup, Unreached(c), c),
                        <<"extract", "classify">>)
            ELSE IF fault.step = "locate"
            THEN Traced(OnEntryException(c), <<"extract", "classify", "locate">>)
            ELSE
            LET locations == entry.locations
            IN  IF locations = <<>>
                THEN Traced(Outcome("no_locations", 0, NoDup, Unreached(c), c),
                            <<"extract", "classify", "locate">>)
                ELSE
                LET dup == _check_duplicate(entry.link, content_data,
                                            Some(locations[1]), hz, now, fault.dup)
                IN  IF dup.is_duplicate
                    THEN Traced(Outcome("duplicate", 0, dup, Unreached(c), c),
                                <<"extract", "classify", "locate", "dedup">>)
                    ELSE
                    LET save == _save_hazard_to_db(entry, content_data, classification,
                                    locations, feed_url, hz, c, config, now,
                                    fault.save, fault.config)
                    IN  Traced(IF save.hazard_id # None
                               THEN Outcome("saved", 0, dup, save, save.cache)
                               ELSE OnSaveFailed(dup, save),
                               <<"extract", "classify", "locate", "dedup", "persist">>)

(***************************************************************************)
(* The Nominatim rate limiter.  The clock starts one interval after the    *)
(* epoch: time.time() is far from the initial _last_nominatim_call_time.   *)
(***************************************************************************)
MIN_INTERVAL == 2
MaxGeoClock == 5
MaxRequests == 2

\* who calls: two coroutines of get_coordinates_from_nominatim_async, a
\* thread in get_coordinates_from_nominatim_sync, and a citizen report
\* handler in citizen_reports.get_coordinates_from_nominatim
GeoCallers == {"async1", "async2", "sync1", "citizen1"}
KindOf(p) == CASE p \in {"async1", "async2"} -> "async"
               [] p = "sync1" -> "sync"
               [] OTHER -> "citizen"

\* if time_since_last < 1.0: sleep_time = 1.0 - time_since_last
SleepTime(now, last_call) ==
    IF now - last_call < MIN_INTERVAL THEN MIN_INTERVAL - (now - last_call) ELSE 0

ZeroStats == [total_processed |-> 0, total_stored |-> 0, duplicates_detected |-> 0,
              errors |-> 0]

\* counters that survive from the run before
StatsAtRunStart_Carry(st) == st

\* self.stats = {'total_processed': 0, ...}   (lines 150-155)
StatsAtRunStart(st) == ZeroStats

\* a rate that reports failures although nothing was processed
Rate_ErrorsLeak(count, total) ==
    IF total = 0 THEN (IF count = 0 THEN 0 ELSE 10000)
    ELSE (count * 10000) \div total

\* round((count / total) * 100, 2) in hundredths of a percent, 0 when
\* total == 0; round() goes to the nearest hundredth, ties to the even one
Rate(count, total) ==
    IF total = 0 THEN 0
    ELSE LET q == (count * 10000) \div total
             r == (count * 10000) % total
         IN  IF 2 * r > total THEN q + 1
             ELSE IF 2 * r = total THEN q + (q % 2)
             ELSE q

get_statistics(st) ==
    [total_processed |-> st.total_processed,
     total_stored |-> st.total_stored,
     duplicates_detected |-> st.duplicates_detected,
     errors |-> st.errors,
     duplicate_rate_percent |-> Rate(st.duplicates_detected, st.total_processed),
     error_rate_percent |-> Rate(st.errors, st.total_processed)]

\* the rss_processing_logs row written for one result
log_data(result) ==
    [feed_url |-> result.feed_url,
     status |-> result.status,
     items_processed |-> result.items_processed,
     items_added |-> result.items_added,
     duplicates_detected |-> result.duplicates_detected,
     errors_count |-> IF result.status = "error" THEN 1 ELSE 0,
     error_message |-> result.error_message,
     hazard_ids |-> result.hazards_saved]

\* no task drives the processor: process_all_feeds is called directly
NoTask == [state |-> "none", selected |-> <<>>, logs |-> <<>>, statistics |-> None]

NoCall == [called |-> FALSE, before |-> [rss |-> None, citizen |-> None],
           config |-> [rss |-> [present |-> FALSE, numeric |-> TRUE, value |-> 0],
                       citizen |-> [present |-> FALSE, numeric |-> TRUE, value |-> 0]],
           fault |-> FALSE,
           ret |-> [rss |-> 0, citizen |-> 0,
                    cache |-> [rss |-> None, citizen |-> None], raised |-> FALSE]]

NoAnswer == [called |-> FALSE, results |-> <<>>, coords |-> None]

NoHash == [called |-> FALSE, a |-> [title |-> <<>>, description |-> <<>>],
           b |-> [title |-> <<>>, description |-> <<>>], edit |-> "none",
           hash_a |-> <<>>, hash_b |-> <<>>]

\* process_rss_feeds_task in the Celery worker and process_rss_feeds in the
\* API server: two processes, each with its own processor, on one database
Runners == {"scheduled", "manual"}

IdleRunner == [pc |-> "idle", feed_url |-> "", entries |-> <<>>, idx |-> 0, attempts |-> 0]

\* two POST /process requests in the API server
Requests == {"request1", "request2"}

IdleRequest == [pc |-> "idle", run_feeds |-> <<>>, idx |-> 0, results |-> <<>>,
                errors |-> 0, statistics |-> None]

NoReturn == [requested |-> FALSE, updated |-> FALSE, raised |-> FALSE, coords |-> None]

NoGeocode == [called |-> FALSE, kind |-> "none",
              location_string |-> [is_none |-> TRUE, text |-> <<>>],
              transport |-> "none", ret |-> NoReturn]

ZeroCur == [items_processed |-> 0, items_added |-> 0, duplicates_detected |-> 0,
            hazards_saved |-> <<>>, bozo |-> FALSE]

NoCache == [rss |-> None, citizen |-> None]

\* the state a step started from, as far as the properties below refer to it
Before(st, c, hz, ch) == [stats |-> st, cur |-> c, hazards |-> Len(hz), cache |-> ch]

NoStep == [kind |-> "none", entry |-> 0, feed_url |-> "",
           body |-> Traced(Outcome("none", 0, NoDup, Unreached(NoCache), NoCache), <<>>),
           before |-> Before(ZeroStats, ZeroCur, <<>>, NoCache)]

Step(kind, entry, feed_url, body) ==
    [kind |-> kind, entry |-> entry, feed_url |-> feed_url, body |-> body,
     before |-> Before(stats, cur, hazards, cache)]

InitWith(configs) ==
    /\ feeds = <<>>
    /\ stats = ZeroStats
    /\ cache = NoCache
    /\ system_config \in configs
    /\ hazards = <<>>
    /\ clock = 0
    /\ pc = "idle"
    /\ runs = 0
    /\ runFeeds = <<>>
    /\ feedIdx = 0
    /\ feed = <<>>
    /\ entryIdx = 0
    /\ cur = ZeroCur
    /\ results = <<>>
    /\ last = NoStep
    /\ faults = 0
    /\ gclock = MIN_INTERVAL
    /\ geo_last = 0
    /\ cit_last = 0
    /\ lock = "free"
    /\ callers = [p \in GeoCallers |-> [pc |-> "idle", wake |-> 0]]
    /\ sent = <<>>
    /\ task = NoTask
    /\ lookup = NoCall
    /\ answer = NoAnswer
    /\ hashed = NoHash
    /\ geocall = NoGeocode
    /\ runners = [p \in Runners |-> IdleRunner]
    /\ requests = [r \in Requests |-> IdleRequest]

Init == InitWith(ConfigChoices)

\* set_feeds(feed_urls), called between runs
SetFeeds(feed_urls) ==
    /\ pc = "idle"
    /\ runs < MaxRuns
    /\ feeds' = validated_feeds(feed_urls)
    /\ task' = [NoTask EXCEPT !.state = "set", !.selected = feed_urls]
    /\ last' = Step("set_feeds", 0, "", NoStep.body)
    /\ UNCHANGED <<stats, cache, system_config, hazards, clock, pc, runs, runFeeds,
                   feedIdx, feed, entryIdx, cur, results, faults>>
    /\ UNCHANGED <<geoVars, auxVars>>

\* process_all_feeds up to the for loop (lines 145-157)
StartRun ==
    /\ pc = "idle"
    /\ runs < MaxRuns
    /\ runs' = runs + 1
    /\ feeds' = IF feeds = <<>> THEN DEFAULT_FEEDS ELSE feeds
    /\ runFeeds' = feeds'
    /\ stats' = StatsAtRunStart(stats)
    /\ results' = <<>>
    /\ feedIdx' = 1
    /\ feed' = <<>>
    /\ entryIdx' = 0
    /\ cur' = ZeroCur
    /\ pc' = "fetch"
    /\ last' = Step("start", 0, "", NoStep.body)
    /\ UNCHANGED <<cache, system_config, hazards, clock, faults>>
    /\ UNCHANGED <<task, geoVars, auxVars>>

FeedResult(feed_url, status, error_message, c) ==
    [feed_url |-> feed_url, status |-> status, error_message |-> error_message,
     items_processed |-> c.items_processed, items_added |-> c.items_added,
     duplicates_detected |-> c.duplicates_detected, hazards_saved |-> c.hazards_saved]

\* a feed failure that leaves no result
OnFeedError_Drop(res, feed_url) == res

\* except Exception of process_feed (lines 296-312), and results.append
OnFeedError(res, feed_url) ==
    Append(res, FeedResult(feed_url, "error", Some("fetch failed"), ZeroCur))

\* process_feed up to the loop (lines 190-205).  feedparser.parse either
\* delivers the entries, or reports the failure on the result (bozo set, no
\* entries), or raises.
FetchFeed(outcome) ==
    /\ pc = "fetch"
    /\ feedIdx <= Len(runFeeds)
    /\ outcome # "entries" => faults < MaxFaults
    /\ faults' = IF outcome = "entries" THEN faults ELSE faults + 1
    /\ LET feed_url == runFeeds[feedIdx]
       IN  /\ last' = Step(outcome, 0, feed_url, NoStep.body)
           /\ IF outcome = "raise"
              THEN /\ stats' = [stats EXCEPT !.errors = @ + 1]
                   /\ results' = OnFeedError(results, feed_url)
                   /\ feedIdx' = feedIdx + 1
                   /\ UNCHANGED <<pc, feed, entryIdx, cur>>
              ELSE /\ feed' = IF outcome = "entries" THEN FeedEntries[feed_url] ELSE <<>>
                   /\ entryIdx' = 1
                   /\ cur' = [ZeroCur EXCEPT !.bozo = (outcome = "bozo")]
                   /\ pc' = "entries"
                   /\ UNCHANGED <<stats, results, feedIdx>>
    /\ UNCHANGED <<feeds, cache, system_config, hazards, clock, runs, runFeeds>>
    /\ UNCHANGED <<task, geoVars, auxVars>>

\* one iteration of `for entry in feed.entries` (lines 207-278)
ProcessEntry(fault) ==
    /\ pc = "entries"
    /\ entryIdx <= Len(feed)
    /\ fault # NoFault => faults < MaxFaults
    /\ faults' = IF fault = NoFault THEN faults ELSE faults + 1
    /\ LET feed_url == runFeeds[feedIdx]
           entry == Entries[feed[entryIdx]]
           body == EntryBody(entry, feed_url, hazards, cache, system_config, clock, fault)
       IN  /\ last' = Step("entry", feed[entryIdx], feed_url, body)
           /\ cache' = body.cache
           /\ hazards' = IF body.outcome = "saved"
                         THEN Append(hazards, body.save.row[1]) ELSE hazards
           /\ cur' = [items_processed |-> cur.items_processed + 1,
                      items_added |-> cur.items_added
                                        + (IF body.outcome = "saved" THEN 1 ELSE 0),
                      duplicates_detected |-> cur.duplicates_detected
                                        + (IF body.outcome = "duplicate" THEN 1 ELSE 0),
                      hazards_saved |-> IF body.outcome = "saved"
                                        THEN Append(cur.hazards_saved, body.save.hazard_id[1])
                                        ELSE cur.hazards_saved,
                      bozo |-> cur.bozo]
           /\ stats' = [total_processed |-> stats.total_processed + 1,
                        total_stored |-> stats.total_stored
                                        + (IF body.outcome = "saved" THEN 1 ELSE 0),
                        duplicates_detected |-> stats.duplicates_detected
                                        + (IF body.outcome = "duplicate" THEN 1 ELSE 0),
                        errors |-> stats.errors + body.errors]
    /\ entryIdx' = entryIdx + 1
    /\ UNCHANGED <<feeds, system_config, clock, pc, runs, runFeeds, feedIdx, feed, results>>
    /\ UNCHANGED <<task, geoVars, auxVars>>

\* the end of process_feed (lines 280-294)
FinishFeed ==
    /\ pc = "entries"
    /\ entryIdx > Len(feed)
    /\ results' = Append(results, FeedResult(runFeeds[feedIdx], "success", None, cur))
    /\ feedIdx' = feedIdx + 1
    /\ pc' = "fetch"
    /\ last' = Step("finish_feed", 0, runFeeds[feedIdx], NoStep.body)
    /\ UNCHANGED <<feeds, stats, cache, system_config, hazards, clock, runs, runFeeds,
                   feed, entryIdx, cur, faults>>
    /\ UNCHANGED <<task, geoVars, auxVars>>

\* the end of process_all_feeds (lines 163-168) and, when a task or the
\* manual endpoint drives the run, what it does with the results: one
\* rss_processing_logs row per result, then get_statistics
\* (celery_worker.py lines 116-135, rss_admin_api.py lines 354-373);
\* process_single_feed_task logs results[0] only (celery_worker.py 194-211)
ReturnResults ==
    /\ pc = "fetch"
    /\ feedIdx > Len(runFeeds)
    /\ pc' = "idle"
    /\ task' = IF task.state = "set"
               THEN [task EXCEPT !.state = "done",
                                 !.logs = [i \in 1..Len(results) |-> log_data(results[i])],
                                 !.statistics = Some(get_statistics(stats))]
               ELSE IF task.state = "single"
               THEN [task EXCEPT !.state = "single_done",
                                 !.logs = IF results # <<>> THEN <<log_data(results[1])>>
                                          ELSE <<>>]
               ELSE NoTask
    /\ last' = Step("return", 0, "", NoStep.body)
    /\ UNCHANGED <<feeds, stats, cache, system_config, hazards, clock, runs, runFeeds,
                   feedIdx, feed, entryIdx, cur, results, faults>>
    /\ UNCHANGED <<geoVars, auxVars>>

\* time passes between runs
Tick ==
    /\ pc = "idle"
    /\ clock + TickHours <= MaxClock
    /\ clock' = clock + TickHours
    /\ last' = Step("tick", 0, "", NoStep.body)
    /\ UNCHANGED <<feeds, stats, cache, system_config, hazards, pc, runs, runFeeds,
                   feedIdx, feed, entryIdx, cur, results, faults>>
    /\ UNCHANGED <<task, geoVars, auxVars>>

(***************************************************************************)
(* Geocoding calls.                                                        *)
(***************************************************************************)
\* calls begun so far: requests sent and callers about to send
Started == Len(sent) + Cardinality({p \in GeoCallers : callers[p].pc = "sleeping"})

GeoTick ==
    /\ gclock < MaxGeoClock
    /\ gclock' = gclock + 1
    /\ UNCHANGED <<geo_last, cit_last, lock, callers, sent>>
    /\ UNCHANGED <<rssVars, auxVars>>

\* async: the first `with _nominatim_lock` block (lines 154-159)
AsyncCheck(p) ==
    /\ KindOf(p) = "async"
    /\ callers[p].pc = "idle"
    /\ lock = "free"
    /\ Started < MaxRequests
    /\ callers' = [callers EXCEPT ![p] = [pc |-> "sleeping",
                                          wake |-> gclock + SleepTime(gclock, geo_last)]]
    /\ UNCHANGED <<gclock, geo_last, cit_last, lock, sent>>
    /\ UNCHANGED <<rssVars, auxVars>>

\* sync: `with _nominatim_lock` with time.sleep inside it (lines 237-241)
SyncCheck(p) ==
    /\ KindOf(p) = "sync"
    /\ callers[p].pc = "idle"
    /\ lock = "free"
    /\ Started < MaxRequests
    /\ callers' = [callers EXCEPT ![p] = [pc |-> "sleeping",
                                          wake |-> gclock + SleepTime(gclock, geo_last)]]
    /\ lock' = p
    /\ UNCHANGED <<gclock, geo_last, cit_last, sent>>
    /\ UNCHANGED <<rssVars, auxVars>>

\* citizen_reports: no lock, its own timestamp (lines 110-113)
CitizenCheck(p) ==
    /\ KindOf(p) = "citizen"
    /\ callers[p].pc = "idle"
    /\ Started < MaxRequests
    /\ callers' = [callers EXCEPT ![p] = [pc |-> "sleeping",
                                          wake |-> gclock + SleepTime(gclock, cit_last)]]
    /\ UNCHANGED <<gclock, geo_last, cit_last, lock, sent>>
    /\ UNCHANGED <<rssVars, auxVars>>

\* the sleep is over (a sync caller leaves the lock) and the HTTP request is sent
SendRequest(p) ==
    /\ callers[p].pc = "sleeping"
    /\ gclock >= callers[p].wake
    /\ callers' = [callers EXCEPT ![p].pc = "in_flight"]
    /\ lock' = IF lock = p THEN "free" ELSE lock
    /\ sent' = Append(sent, gclock)
    /\ UNCHANGED <<gclock, geo_last, cit_last>>
    /\ UNCHANGED <<rssVars, auxVars>>

\* the response arrived and raise_for_status passed: the timestamp is updated
ResponseOk(p) ==
    /\ callers[p].pc = "in_flight"
    /\ KindOf(p) \in {"async", "sync"} => lock = "free"
    /\ geo_last' = IF KindOf(p) = "citizen" THEN geo_last ELSE gclock
    /\ cit_last' = IF KindOf(p) = "citizen" THEN gclock ELSE cit_last
    /\ callers' = [callers EXCEPT ![p].pc = "idle"]
    /\ UNCHANGED <<gclock, lock, sent>>
    /\ UNCHANGED <<rssVars, auxVars>>

\* timeout, network error or HTTP error status: the except clauses return None
ResponseFailed(p) ==
    /\ callers[p].pc = "in_flight"
    /\ callers' = [callers EXCEPT ![p].pc = "idle"]
    /\ UNCHANGED <<gclock, geo_last, cit_last, lock, sent>>
    /\ UNCHANGED <<rssVars, auxVars>>

NextGeo ==
    \/ GeoTick
    \/ \E p \in GeoCallers : AsyncCheck(p)
    \/ \E p \in GeoCallers : SyncCheck(p)
    \/ \E p \in GeoCallers : CitizenCheck(p)
    \/ \E p \in GeoCallers : SendRequest(p)
    \/ \E p \in GeoCallers : ResponseOk(p)
    \/ \E p \in GeoCallers : ResponseFailed(p)

SpecGeo == Init /\ [][NextGeo]_vars

Next ==
    \/ \E feed_urls \in FeedLists : SetFeeds(feed_urls)
    \/ StartRun
    \/ \E outcome \in {"entries", "bozo", "raise"} : FetchFeed(outcome)
    \/ \E fault \in Faults : ProcessEntry(fault)
    \/ FinishFeed
    \/ ReturnResults
    \/ Tick

Spec == Init /\ [][Next]_vars

(***************************************************************************)
(* The threshold cache on its own: calls of _get_confidence_thresholds     *)
(* interleaved with the admin endpoint that changes stored values.         *)
(***************************************************************************)
\* what gaia.system_config may hold for the two keys: no row, a number, or
\* a text float() rejects
StoredConfigs ==
    {[rss |-> r, citizen |-> c] :
        r \in {Row(FALSE, TRUE, 0), Row(TRUE, TRUE, 85), Row(TRUE, FALSE, 0)},
        c \in {Row(FALSE, TRUE, 0), Row(TRUE, TRUE, 60), Row(TRUE, FALSE, 0)}}

\* values an administrator submits
NewValues == {60, 90}

InitConfig == InitWith(StoredConfigs)

\* PATCH /system-config/{config_key}: 404 when the key has no row, else
\* the row's config_value is replaced (admin_api.py lines 511-565)
update_system_config(config_key, new_value) ==
    /\ system_config[config_key].present
    /\ system_config' = [system_config EXCEPT ![config_key] = Row(TRUE, TRUE, new_value)]
    /\ UNCHANGED <<feeds, stats, cache, hazards, clock, pc, runs, runFeeds, feedIdx,
                   feed, entryIdx, cur, results, last, faults, task>>
    /\ UNCHANGED <<geoVars, auxVars>>

\* one call of _get_confidence_thresholds; fault: the select raises
GetThresholds(fault) ==
    /\ LET ret == _get_confidence_thresholds(cache, system_config, fault)
       IN  /\ lookup' = [called |-> TRUE, before |-> cache, config |-> system_config,
                         fault |-> fault, ret |-> ret]
           /\ cache' = ret.cache
    /\ UNCHANGED <<feeds, stats, system_config, hazards, clock, pc, runs, runFeeds,
                   feedIdx, feed, entryIdx, cur, results, last, faults, task>>
    /\ UNCHANGED <<geoVars, answer, hashed, geocall, runners, requests>>

NextConfig ==
    \/ \E config_key \in {"rss", "citizen"}, new_value \in NewValues :
            update_system_config(config_key, new_value)
    \/ \E fault \in BOOLEAN : GetThresholds(fault)

SpecConfig == InitConfig /\ [][NextConfig]_vars


(***************************************************************************)
(* Properties.                                                             *)
(***************************************************************************)
PH_LAT_MIN == 400
PH_LAT_MAX == 2100
PH_LON_MIN == 11600
PH_LON_MAX == 12700

\* a box without its border
_is_within_philippine_bounds_Strict(lat, lon) ==
    PH_LAT_MIN < lat /\ lat < PH_LAT_MAX /\ PH_LON_MIN < lon /\ lon < PH_LON_MAX

_is_within_philippine_bounds(lat, lon) ==
    PH_LAT_MIN <= lat /\ lat <= PH_LAT_MAX /\ PH_LON_MIN <= lon /\ lon <= PH_LON_MAX

(***************************************************************************)
(* The geocoder's answer.  A field of a Nominatim result is missing, a     *)
(* text float() rejects, or a number (hundredths of a degree).             *)
(***************************************************************************)
Field(kind, value) == [kind |-> kind, value |-> value]

LatFields ==
    {Field("missing", 0), Field("text", 0)} \cup
    {Field("number", v) : v \in {399, 400, 1460, 2100, 2101}}

LonFields ==
    {Field("missing", 0), Field("text", 0)} \cup
    {Field("number", v) : v \in {11599, 11600, 12100, 12700, 12701}}

\* response.json(): no result, one result, or a first result followed by
\* another one inside or outside the box
NominatimResults ==
    {<<>>} \cup
    {<<[lat |-> x, lon |-> y]>> : x \in LatFields, y \in LonFields} \cup
    {<<[lat |-> x, lon |-> y], [lat |-> Field("number", z), lon |-> Field("number", 12100)]>> :
        x \in LatFields, y \in LonFields, z \in {1460, 3568}}

\* _parse_nominatim_response (lines 83-121)
_parse_nominatim_response(json) ==
    IF json = <<>> THEN None
    ELSE LET best_result == json[1]
         IN  IF best_result.lat.kind = "missing" \/ best_result.lon.kind = "missing"
             THEN None
             ELSE IF best_result.lat.kind = "text" \/ best_result.lon.kind = "text"
             THEN None
             ELSE IF ~_is_within_philippine_bounds(best_result.lat.value,
                                                   best_result.lon.value)
             THEN None
             ELSE Some([latitude |-> best_result.lat.value,
                        longitude |-> best_result.lon.value])

\* get_coordinates_from_nominatim_async / _sync after a successful request:
\* results = response.json(); return _parse_nominatim_response(results, ...)
GeocodeAnswer(json) ==
    /\ answer' = [called |-> TRUE, results |-> json,
                  coords |-> _parse_nominatim_response(json)]
    /\ UNCHANGED <<rssVars, geoVars, lookup, hashed, geocall, runners, requests>>

NextParse == \E json \in NominatimResults : GeocodeAnswer(json)

SpecParse == Init /\ [][NextParse]_vars

(***************************************************************************)
(* A whole geocoding call, one after another: input validation, the wait   *)
(* of the rate limiter, the HTTP request, the except clauses.              *)
(***************************************************************************)
\* location_string: None or a str
NoneLocation == [is_none |-> TRUE, text |-> <<>>]
Str(text) == [is_none |-> FALSE, text |-> text]

LocationStrings ==
    {NoneLocation, Str(<<>>), Str(<<" ">>), Str(<<" ", "\t", "\n">>),
     Str(<<"M">>), Str(<<" ", "M", " ">>)}

\* what the request does: it times out, the connection fails, the status is
\* 4xx/5xx, the body is no JSON, the body is a JSON number, or the body is
\* a JSON array
Transports == {"timeout", "network", "http_status", "bad_json", "json_scalar", "ok"}

GeocodeJson ==
    {<<>>,
     <<[lat |-> Field("number", 1460), lon |-> Field("number", 12100)]>>,
     <<[lat |-> Field("number", 3568), lon |-> Field("number", 13965)]>>,
     <<[lat |-> Field("text", 0), lon |-> Field("number", 12100)]>>,
     <<[lat |-> Field("missing", 0), lon |-> Field("number", 12100)]>>}

\* the exception the transport raises in requests (sync) or httpx (async)
Raises(kind, transport) ==
    CASE transport = "timeout" ->
            IF kind = "sync" THEN "requests.Timeout" ELSE "httpx.TimeoutException"
      [] transport = "network" ->
            IF kind = "sync" THEN "requests.ConnectionError" ELSE "httpx.ConnectError"
      [] transport = "http_status" ->
            IF kind = "sync" THEN "requests.HTTPError" ELSE "httpx.HTTPStatusError"
      [] transport = "bad_json" -> "ValueError"
      [] transport = "json_scalar" -> "TypeError"
      [] OTHER -> "none"

\* the classes an exception is an instance of
Mro(exc) ==
    CASE exc = "requests.Timeout" ->
            {"requests.Timeout", "requests.RequestException", "Exception"}
      [] exc \in {"requests.ConnectionError", "requests.HTTPError"} ->
            {exc, "requests.RequestException", "Exception"}
      [] exc \in {"httpx.TimeoutException", "httpx.ConnectError"} ->
            {exc, "httpx.RequestError", "Exception"}
      [] OTHER -> {exc, "Exception"}

\* the except clauses, in order
except_clauses_async ==
    <<{"httpx.TimeoutException"}, {"httpx.HTTPStatusError"}, {"httpx.RequestError"},
      {"ValueError", "KeyError"}, {"Exception"}>>

except_clauses_sync ==
    <<{"requests.Timeout"}, {"requests.RequestException"},
      {"ValueError", "KeyError"}, {"Exception"}>>

\* only the clause for parse errors
Caught_ParseErrorsOnly(clauses, exc) ==
    Mro(exc) \cap {"ValueError", "KeyError"} # {}

\* some except clause names a class of the exception
Caught(clauses, exc) ==
    \E i \in 1..Len(clauses) : clauses[i] \cap Mro(exc) # {}

\* `not location_string or not location_string.strip()`
IsBlankLocation(location_string) ==
    location_string.is_none \/ Strip(location_string.text) = <<>>

\* the try block and its except clauses; updated: the timestamp is written
\* once raise_for_status has passed
TryRequest(clauses, exc, json) ==
    IF exc = "none"
    THEN [requested |-> TRUE, updated |-> TRUE, raised |-> FALSE,
          coords |-> _parse_nominatim_response(json)]
    ELSE [requested |-> TRUE, updated |-> exc \in {"ValueError", "TypeError"},
          raised |-> ~Caught(clauses, exc), coords |-> None]

get_coordinates_from_nominatim_async(location_string, transport, json) ==
    IF IsBlankLocation(location_string) THEN NoReturn
    ELSE TryRequest(except_clauses_async, Raises("async", transport), json)

get_coordinates_from_nominatim_sync(location_string, transport, json) ==
    IF IsBlankLocation(location_string) THEN NoReturn
    ELSE TryRequest(except_clauses_sync, Raises("sync", transport), json)

\* one call from start to return; the request leaves once the wait is over
GeocodeCall(kind, location_string, transport, json) ==
    /\ Len(sent) < MaxRequests
    /\ LET wake == gclock + SleepTime(gclock, geo_last)
           ret == IF kind = "sync"
                  THEN get_coordinates_from_nominatim_sync(location_string, transport, json)
                  ELSE get_coordinates_from_nominatim_async(location_string, transport, json)
       IN  /\ geocall' = [called |-> TRUE, kind |-> kind,
                          location_string |-> location_string,
                          transport |-> transport, ret |-> ret]
           /\ gclock' = IF ret.requested THEN wake ELSE gclock
           /\ sent' = IF ret.requested THEN Append(sent, wake) ELSE sent
           /\ geo_last' = IF ret.updated THEN wake ELSE geo_last
    /\ UNCHANGED <<cit_last, lock, callers>>
    /\ UNCHANGED <<rssVars, lookup, answer, hashed, runners, requests>>

NextCall ==
    \/ GeoTick
    \/ \E kind \in {"sync", "async"}, location_string \in LocationStrings,
          transport \in Transports :
            \E json \in IF transport = "ok" THEN GeocodeJson ELSE {<<>>} :
                GeocodeCall(kind, location_string, transport, json)

SpecCall == Init /\ [][NextCall]_vars

(***************************************************************************)
(* Runs that overlap in time in two processes.  Every database round trip  *)
(* of one process may fall between two round trips of the other; the       *)
(* queries of one _check_duplicate call are taken together.                *)
(***************************************************************************)
MaxAttempts == 2

OverlapFeeds == {"gma_news", "pagasa"}

\* the task or the endpoint starts a run of one feed; a retry of the task
\* (self.retry) and the next scheduled run start it again
BeginRun(p, feed_url) ==
    /\ runners[p].pc = "idle"
    /\ runners[p].attempts < MaxAttempts
    /\ runners' = [runners EXCEPT ![p] = [pc |-> "entries", feed_url |-> feed_url,
                                          entries |-> FeedEntries[feed_url], idx |-> 1,
                                          attempts |-> runners[p].attempts + 1]]
    /\ UNCHANGED <<rssVars, geoVars, lookup, answer, hashed, geocall, requests>>

\* the per-entry block up to the verdict of _check_duplicate (lines 211-244)
CheckEntry(p) ==
    /\ runners[p].pc = "entries"
    /\ runners[p].idx <= Len(runners[p].entries)
    /\ LET entry == Entries[runners[p].entries[runners[p].idx]]
           content_data == _extract_content(entry)
           classification == classify(entry, classification_threshold)
           candidate == /\ Strip(content_data.text) # <<>>
                        /\ IsHazard(classification)
                        /\ entry.locations # <<>>
           dup == _check_duplicate(entry.link, content_data, Some(entry.locations[1]),
                                   hazards, clock, "none")
       IN  runners' = [runners EXCEPT ![p] =
                IF candidate /\ ~dup.is_duplicate
                THEN [runners[p] EXCEPT !.pc = "insert"]
                ELSE [runners[p] EXCEPT !.idx = runners[p].idx + 1]]
    /\ UNCHANGED <<rssVars, geoVars, lookup, answer, hashed, geocall, requests>>

\* _save_hazard_to_db for the entry that was found not to be a duplicate
\* (lines 246-269)
InsertEntry(p) ==
    /\ runners[p].pc = "insert"
    /\ LET entry == Entries[runners[p].entries[runners[p].idx]]
           save == _save_hazard_to_db(entry, _extract_content(entry),
                        classify(entry, classification_threshold), entry.locations,
                        runners[p].feed_url, hazards, NoCache, system_config, clock,
                        "none", FALSE)
       IN  hazards' = IF save.hazard_id # None THEN Append(hazards, save.row[1])
                      ELSE hazards
    /\ runners' = [runners EXCEPT ![p].pc = "entries", ![p].idx = runners[p].idx + 1]
    /\ UNCHANGED <<feeds, stats, cache, system_config, clock, pc, runs, runFeeds, feedIdx,
                   feed, entryIdx, cur, results, last, faults, task>>
    /\ UNCHANGED <<geoVars, lookup, answer, hashed, geocall, requests>>

\* the loop over the entries is over
EndRun(p) ==
    /\ runners[p].pc = "entries"
    /\ runners[p].idx > Len(runners[p].entries)
    /\ runners' = [runners EXCEPT ![p].pc = "idle"]
    /\ UNCHANGED <<rssVars, geoVars, lookup, answer, hashed, geocall, requests>>

\* the run is abandoned where it is: task_time_limit kills the task, or the
\* client of the endpoint goes away (celery_worker.py lines 43-44)
AbandonRun(p) ==
    /\ runners[p].pc \in {"entries", "insert"}
    /\ runners' = [runners EXCEPT ![p].pc = "idle"]
    /\ UNCHANGED <<rssVars, geoVars, lookup, answer, hashed, geocall, requests>>

NextOverlap ==
    \/ \E p \in Runners, feed_url \in OverlapFeeds : BeginRun(p, feed_url)
    \/ \E p \in Runners : CheckEntry(p)
    \/ \E p \in Runners : InsertEntry(p)
    \/ \E p \in Runners : EndRun(p)
    \/ \E p \in Runners : AbandonRun(p)

SpecOverlap == Init /\ [][NextOverlap]_vars

(***************************************************************************)
(* Manual runs that overlap in one event loop on the shared instance.  A   *)
(* coroutine gives way only at `await loop.run_in_executor(...)`, the feed *)
(* fetch: _check_duplicate and _save_hazard_to_db contain no await.        *)
(***************************************************************************)
SharedFeedLists == {<<"pagasa">>, <<"gma_pa", "pagasa">>}

\* what one iteration of the loop over feed.entries leaves behind: the
\* counters of the instance, the store, the locals of process_feed, the
\* threshold cache, and the errors this iteration counted
Counted(st, body) ==
    LET saved == IF body.outcome = "saved" THEN 1 ELSE 0
        dup == IF body.outcome = "duplicate" THEN 1 ELSE 0
    IN  [stats |-> [total_processed |-> st.stats.total_processed + 1,
                    total_stored |-> st.stats.total_stored + saved,
                    duplicates_detected |-> st.stats.duplicates_detected + dup,
                    errors |-> st.stats.errors + body.errors],
         hazards |-> IF saved = 1 THEN Append(st.hazards, body.save.row[1]) ELSE st.hazards,
         cur |-> [items_processed |-> st.cur.items_processed + 1,
                  items_added |-> st.cur.items_added + saved,
                  duplicates_detected |-> st.cur.duplicates_detected + dup,
                  hazards_saved |-> IF saved = 1
                                    THEN Append(st.cur.hazards_saved, body.save.hazard_id[1])
                                    ELSE st.cur.hazards_saved,
                  bozo |-> st.cur.bozo],
         cache |-> body.cache,
         errors |-> st.errors + body.errors]

\* one iteration of the loop, nothing raising
AfterEntry(st, entry_id, feed_url, config, now) ==
    CHOOSE next \in {Counted(st, body) :
                        body \in {EntryBody(Entries[entry_id], feed_url, st.hazards,
                                            st.cache, config, now, NoFault)}} : TRUE

\* the whole loop `for entry in feed.entries`
AfterEntries(st, entries, feed_url, config, now) ==
    LET F[i \in 0..Len(entries)] ==
            IF i = 0 THEN st
            ELSE CHOOSE next \in {AfterEntry(prev, entries[i], feed_url, config, now) :
                                    prev \in {F[i - 1]}} : TRUE
    IN  F[Len(entries)]

\* the endpoint up to the first fetch: set_feeds, the start of
\* process_all_feeds (default feeds, statistics reset), the first
\* process_feed up to its await
Trigger(r, feed_urls) ==
    /\ requests[r].pc = "idle"
    /\ LET accepted == validated_feeds(feed_urls)
       IN  /\ feeds' = IF accepted = <<>> THEN DEFAULT_FEEDS ELSE accepted
           /\ requests' = [requests EXCEPT ![r] =
                    [IdleRequest EXCEPT !.pc = "fetching", !.run_feeds = feeds', !.idx = 1]]
    /\ stats' = StatsAtRunStart(stats)
    /\ UNCHANGED <<cache, system_config, hazards, clock, pc, runs, runFeeds, feedIdx, feed,
                   entryIdx, cur, results, last, faults, task>>
    /\ UNCHANGED <<geoVars, lookup, answer, hashed, geocall, runners>>

\* the fetch returns: the entries of the feed are processed and the result
\* appended; then the next feed's fetch starts, or process_all_feeds
\* returns and the endpoint reads get_statistics (rss_admin_api.py 354-373)
FeedFetched(r, outcome) ==
    /\ requests[r].pc = "fetching"
    /\ LET feed_url == requests[r].run_feeds[requests[r].idx]
           more == requests[r].idx < Len(requests[r].run_feeds)
       IN  \E after \in {IF outcome = "raise"
                         THEN [stats |-> [stats EXCEPT !.errors = @ + 1],
                               hazards |-> hazards, cur |-> ZeroCur, cache |-> cache,
                               errors |-> requests[r].errors + 1]
                         ELSE AfterEntries([stats |-> stats, hazards |-> hazards,
                                            cur |-> ZeroCur, cache |-> cache,
                                            errors |-> requests[r].errors],
                                           FeedEntries[feed_url], feed_url,
                                           system_config, clock)} :
               /\ stats' = after.stats
               /\ hazards' = after.hazards
               /\ cache' = after.cache
               /\ requests' = [requests EXCEPT ![r] =
                    [pc |-> IF more THEN "fetching" ELSE "done",
                     run_feeds |-> requests[r].run_feeds,
                     idx |-> requests[r].idx + 1,
                     results |-> IF outcome = "raise"
                                 THEN OnFeedError(requests[r].results, feed_url)
                                 ELSE Append(requests[r].results,
                                        FeedResult(feed_url, "success", None, after.cur)),
                     errors |-> after.errors,
                     statistics |-> IF more THEN None
                                    ELSE Some(get_statistics(after.stats))]]
    /\ UNCHANGED <<feeds, system_config, clock, pc, runs, runFeeds, feedIdx, feed,
                   entryIdx, cur, results, last, faults, task>>
    /\ UNCHANGED <<geoVars, lookup, answer, hashed, geocall, runners>>

NextShared ==
    \/ \E r \in Requests, feed_urls \in SharedFeedLists : Trigger(r, feed_urls)
    \/ \E r \in Requests, outcome \in {"entries", "raise"} : FeedFetched(r, outcome)

SpecShared == Init /\ [][NextShared]_vars

(***************************************************************************)
(* process_single_feed_task: the task runs the processor on the URL of one *)
(* row of gaia.rss_feeds.                                                  *)
(***************************************************************************)
\* feed_url of the row: rows are created through the admin API, which
\* refuses localhost only (rss_admin_api.py lines 49-58)
SingleFeedUrls == {"pagasa", "private", "userinfo"}

\* the task up to the first fetch: rss_processor_enhanced.set_feeds([feed_url]),
\* then process_all_feeds up to its for loop
SingleFeedTask(feed_url) ==
    /\ pc = "idle"
    /\ runs < MaxRuns
    /\ runs' = runs + 1
    /\ task' = [NoTask EXCEPT !.state = "single", !.selected = <<feed_url>>]
    /\ LET accepted == validated_feeds(<<feed_url>>)
       IN  feeds' = IF accepted = <<>> THEN DEFAULT_FEEDS ELSE accepted
    /\ runFeeds' = feeds'
    /\ stats' = StatsAtRunStart(stats)
    /\ results' = <<>>
    /\ feedIdx' = 1
    /\ feed' = <<>>
    /\ entryIdx' = 0
    /\ cur' = ZeroCur
    /\ pc' = "fetch"
    /\ last' = Step("start", 0, "", NoStep.body)
    /\ UNCHANGED <<cache, system_config, hazards, clock, faults>>
    /\ UNCHANGED <<geoVars, auxVars>>

NextSingle ==
    \/ \E feed_url \in SingleFeedUrls : SingleFeedTask(feed_url)
    \/ \E outcome \in {"entries", "bozo", "raise"} : FetchFeed(outcome)
    \/ \E fault \in Faults : ProcessEntry(fault)
    \/ FinishFeed
    \/ ReturnResults

SpecSingle == Init /\ [][NextSingle]_vars

(***************************************************************************)
(* Manual runs one after another: a request is answered before the next    *)
(* one arrives.  Every fetch may raise.                                    *)
(***************************************************************************)
RunFeedLists == {<<"pagasa">>, <<"gma_pa", "pagasa", "inquirer">>, <<"rappler", "gma_pa">>}

\* the endpoint returns its response
Respond(r) ==
    /\ requests[r].pc = "done"
    /\ requests' = [requests EXCEPT ![r].pc = "idle"]
    /\ UNCHANGED <<rssVars, geoVars, lookup, answer, hashed, geocall, runners>>

NextRun ==
    \/ \E feed_urls \in RunFeedLists : Trigger("request1", feed_urls)
    \/ \E outcome \in {"entries", "raise"} : FeedFetched("request1", outcome)
    \/ Respond("request1")

SpecRun == Init /\ [][NextRun]_vars

(***************************************************************************)
(* Content hashes of two contents that differ in case or whitespace only.  *)
(***************************************************************************)
Upper(c) ==
    CASE c = "f" -> "F"
      [] c = "q" -> "Q"
      [] c = "m" -> "M"
      [] OTHER -> c

HashTitles == {<<"F", "l", " ", "M">>, <<"Q">>, <<"q", "\t", "f">>, <<"m", " ", " ", "q">>,
               <<"x", "y">>}
HashDescriptions == {<<"x">>, <<"y", " ", "y">>, <<"m", "\n", "x">>}

\* every whitespace character of s twice
RECURSIVE Widen(_)
Widen(s) ==
    IF s = <<>> THEN <<>>
    ELSE IF IsSpace(s[1]) THEN <<s[1], s[1]>> \o Widen(Tail(s))
    ELSE <<s[1]>> \o Widen(Tail(s))

Edits == {"upper", "lower", "widen", "tabs", "before_title", "after_description",
          "after_title", "before_description"}

\* the content a differs from by the edit: letter case, longer whitespace
\* runs, other whitespace characters, whitespace at either end of a field
Variant(a, edit) ==
    CASE edit = "upper" ->
            [title |-> [i \in 1..Len(a.title) |-> Upper(a.title[i])],
             description |-> [i \in 1..Len(a.description) |-> Upper(a.description[i])]]
      [] edit = "lower" ->
            [title |-> [i \in 1..Len(a.title) |-> Lower(a.title[i])],
             description |-> [i \in 1..Len(a.description) |-> Lower(a.description[i])]]
      [] edit = "widen" ->
            [title |-> Widen(a.title), description |-> Widen(a.description)]
      [] edit = "tabs" ->
            [title |-> [i \in 1..Len(a.title) |->
                            IF IsSpace(a.title[i]) THEN "\t" ELSE a.title[i]],
             description |-> [i \in 1..Len(a.description) |->
                            IF IsSpace(a.description[i]) THEN "\t" ELSE a.description[i]]]
      [] edit = "before_title" ->
            [title |-> <<" ">> \o a.title, description |-> a.description]
      [] edit = "after_description" ->
            [title |-> a.title, description |-> a.description \o <<" ", "\n">>]
      [] edit = "after_title" ->
            [title |-> a.title \o <<" ">>, description |-> a.description]
      [] OTHER ->
            [title |-> a.title, description |-> <<" ">> \o a.description]

\* _generate_content_hash applied to a content and to its variant
GenerateHashes(a, edit) ==
    /\ LET b == Variant(a, edit)
       IN  hashed' = [called |-> TRUE, a |-> a, b |-> b, edit |-> edit,
                      hash_a |-> _generate_content_hash(a),
                      hash_b |-> _generate_content_hash(b)]
    /\ UNCHANGED <<rssVars, geoVars, lookup, answer, geocall, runners, requests>>

NextHash ==
    \E title \in HashTitles, description \in HashDescriptions, edit \in Edits :
        GenerateHashes([title |-> title, description |-> description], edit)

SpecHash == Init /\ [][NextHash]_vars

\* the entry the last step handled, the store as that step found it, and
\* the result appended last
LastEntry == Entries[last.entry]
StoreBefore == SubSeq(hazards, 1, last.before.hazards)
LastResult == results[Len(results)]
EntryStep == last.kind = "entry"

\* the entry reached the duplicate check: it is a hazard with locations
ReachedDuplicateCheck == last.body.outcome \in {"duplicate", "saved", "save_failed"}

\* C1: no hazard in the store lies outside the Philippine box
\* [4.0, 21.0] x [116.0, 127.0].
C1_NoHazardOutsidePhilippines ==
    \A i \in 1..Len(hazards) :
        _is_within_philippine_bounds(hazards[i].latitude, hazards[i].longitude)

\* an earlier processing of the same feed persisted the entry's link
PersistedEarlier ==
    /\ LastEntry.link # ""
    /\ \E i \in 1..Len(StoreBefore) :
          /\ StoreBefore[i].source_url = LastEntry.link
          /\ StoreBefore[i].source = last.feed_url

CountedAsDuplicate ==
    /\ Len(hazards) = last.before.hazards
    /\ cur.items_added = last.before.cur.items_added
    /\ cur.duplicates_detected = last.before.cur.duplicates_detected + 1
    /\ stats.duplicates_detected = last.before.stats.duplicates_detected + 1

C3_NearbyHazardIsGeoDuplicate ==
    LET primary == PrimaryLocation(LastEntry.locations)
        content_hash == _generate_content_hash(_extract_content(LastEntry))
    IN  (/\ EntryStep
         /\ ReachedDuplicateCheck
         /\ ~last.body.dup.raised
         /\ primary # None
         /\ (LastEntry.link = "" \/ ByUrl(StoreBefore, LastEntry.link) = {})
         /\ ByHash(StoreBefore, content_hash, clock) = {}
         /\ get_nearby_hazards(StoreBefore, primary[1].latitude[1],
                               primary[1].longitude[1], RADIUS_KM,
                               duplicate_time_window, clock) # {})
        => (/\ last.body.outcome = "duplicate"
            /\ last.body.dup.strategy = "geo"
            /\ Len(hazards) = last.before.hazards)

\* something raised while the entry was handled
RaisedInEntry ==
    \/ last.body.outcome = "exception"
    \/ last.body.dup.raised
    \/ last.body.save.why = "insert_raise"

\* C4 as stated: an exception raised while extracting, classifying,
\* locating, duplicate-checking or persisting an entry increments the error
\* counter once, and the loop goes on.
C4_EveryExceptionCountedOnce ==
    (EntryStep /\ RaisedInEntry) =>
        (stats.errors = last.before.stats.errors + 1 /\ pc = "entries")

\* C4 amended: an exception raised while extracting, classifying or locating
\* an entry, or by the hazard insert, increments the error counter once; an
\* exception raised by a duplicate lookup is swallowed by _check_duplicate
\* and increments nothing by itself.  In every case the loop goes on to the
\* next entry, so a feed's items_processed is the number of its entries.
C4_ExceptionCountedOnceLoopContinues ==
    /\ (EntryStep /\ (last.body.outcome = "exception"
                      \/ last.body.save.why = "insert_raise"))
       => stats.errors = last.before.stats.errors + 1
    /\ (EntryStep /\ last.body.dup.raised /\ last.body.outcome = "saved")
       => stats.errors = last.before.stats.errors
    /\ EntryStep
       => /\ pc = "entries"
          /\ cur.items_processed = last.before.cur.items_processed + 1
          /\ cur.items_processed = entryIdx - 1
    /\ last.kind = "finish_feed"
       => /\ LastResult.items_processed = Len(feed)
          /\ LastResult.status = "success"

\* an entry is processed after an earlier entry of the same feed raised
C4_Witness ==
    /\ EntryStep
    /\ last.entry = 2
    /\ last.before.cur.items_processed = 1
    /\ last.before.stats.errors = 1
    /\ last.before.hazards = 0
    /\ last.body.outcome = "saved"

\* C5: process_all_feeds returns one result for each feed of self.feeds, in
\* order, each with status success or error and with items_processed and
\* items_added; a failed feed adds its result and the loop goes on.
C5_OneResultPerFeed ==
    /\ pc = "fetch" => Len(results) = feedIdx - 1 /\ feedIdx \in 1..(Len(runFeeds) + 1)
    /\ pc = "entries" => /\ Len(results) = feedIdx - 1
                         /\ feedIdx \in 1..Len(runFeeds)
                         /\ entryIdx \in 1..(Len(feed) + 1)
    /\ last.kind = "return"
       => /\ pc = "idle"
          /\ runFeeds = feeds
          /\ Len(results) = Len(feeds)
          /\ \A i \in 1..Len(results) :
                /\ results[i].feed_url = feeds[i]
                /\ results[i].status \in {"success", "error"}
                /\ results[i].items_processed \in Nat
                /\ results[i].items_added \in Nat

\* a run returned in which a feed failed and a later feed delivered entries
C5_Witness ==
    /\ last.kind = "return"
    /\ \E i, j \in 1..Len(results) :
          /\ i < j
          /\ results[i].status = "error"
          /\ results[j].status = "success"
          /\ results[j].items_processed > 0

\* C6: a feed that cannot be fetched (feedparser raises, or reports the
\* failure on its result) gets status error, a non-empty error_message and
\* no items.
C6_UnfetchableFeedIsError ==
    (last.kind = "raise" \/ (last.kind = "finish_feed" /\ cur.bozo))
    => /\ LastResult.status = "error"
       /\ LastResult.error_message # None
       /\ LastResult.items_processed = 0
       /\ LastResult.items_added = 0

\* C7: a hazard entry whose non-empty location list holds no location with
\* both coordinates is skipped silently: nothing is persisted, and neither
\* errors nor duplicates_detected is incremented.
C7_NoCoordinatesSkippedSilently ==
    (/\ EntryStep
     /\ ReachedDuplicateCheck
     /\ LastEntry.locations # <<>>
     /\ PrimaryLocation(LastEntry.locations) = None)
    => /\ Len(hazards) = last.before.hazards
       /\ stats.errors = last.before.stats.errors
       /\ stats.duplicates_detected = last.before.stats.duplicates_detected

\* the RSS threshold a save works with: the cached one when both are
\* cached, the default when the read or a conversion raised, else the
\* stored value, or the default when none is stored
RssThresholdInEffect(c, config, raised) ==
    IF c.rss # None /\ c.citizen # None THEN c.rss[1]
    ELSE IF raised THEN DEFAULT_RSS_THRESHOLD
    ELSE IF config.rss.present THEN config.rss.value
    ELSE DEFAULT_RSS_THRESHOLD

\* C8: a persisted RSS hazard is validated exactly when its confidence
\* score is at least the RSS threshold in effect, and validated_at and
\* validation_notes are set exactly when it is validated.
C8_ValidatedIffScoreAtLeastThreshold ==
    /\ \A i \in 1..Len(hazards) :
          /\ hazards[i].validated <=> hazards[i].validated_at # None
          /\ hazards[i].validated <=> hazards[i].validation_notes # None
    /\ (EntryStep /\ last.body.outcome = "saved")
       => LET h == hazards[Len(hazards)]
              t == RssThresholdInEffect(last.before.cache, system_config,
                                        last.body.save.config_raised)
          IN  h.validated <=> h.confidence_score >= t

\* a hazard whose score equals the threshold was persisted, validated
C8_Witness ==
    /\ EntryStep
    /\ last.body.outcome = "saved"
    /\ hazards[Len(hazards)].confidence_score
          = RssThresholdInEffect(last.before.cache, system_config,
                                 last.body.save.config_raised)
    /\ hazards[Len(hazards)].validated
    /\ hazards[Len(hazards)].validated_at # None

\* C9: any two requests sent to the geocoding service are at least one
\* second apart.
C9_RequestsOneSecondApart ==
    \A i, j \in 1..Len(sent) : i < j => sent[j] - sent[i] >= MIN_INTERVAL

\* C10: when a duplicate lookup raises, _check_duplicate returns
\* (False, None): the entry is not counted as a duplicate and goes on to
\* the persistence step.
C10_LookupFailureMeansNotDuplicate ==
    (EntryStep /\ last.body.dup.raised)
    => /\ ~last.body.dup.is_duplicate
       /\ last.body.dup.duplicate_id = None
       /\ stats.duplicates_detected = last.before.stats.duplicates_detected
       /\ cur.duplicates_detected = last.before.cur.duplicates_detected
       /\ last.body.outcome \in {"saved", "save_failed"}
       /\ last.body.save.why # "unreached"

\* the URL lookup raised for an entry already in the store, and the entry
\* was persisted a second time
C10_Witness ==
    /\ EntryStep
    /\ last.body.dup.raised
    /\ last.body.outcome = "saved"
    /\ \E i \in 1..Len(StoreBefore) : StoreBefore[i].source_url = LastEntry.link

\* the call found both thresholds cached / had to read the store
FoundCached == lookup.called /\ lookup.before.rss # None /\ lookup.before.citizen # None
ReadStore == lookup.called /\ ~(lookup.before.rss # None /\ lookup.before.citizen # None)

\* the read raised, or float() raised on one of the rows read
ReadRaised ==
    \/ lookup.fault
    \/ lookup.config.rss.present /\ ~lookup.config.rss.numeric
    \/ lookup.config.citizen.present /\ ~lookup.config.citizen.numeric

C12_FailureReturnsDefaults ==
    (ReadStore /\ ReadRaised) =>
        /\ lookup.ret.raised
        /\ lookup.ret.rss = DEFAULT_RSS_THRESHOLD
        /\ lookup.ret.citizen = DEFAULT_CITIZEN_THRESHOLD

\* the conversion of the second row raised after the first row was cached
C12_Witness ==
    /\ ReadStore
    /\ ~lookup.fault
    /\ lookup.config.rss.present /\ lookup.config.rss.numeric
    /\ lookup.config.rss.value # DEFAULT_RSS_THRESHOLD
    /\ lookup.config.citizen.present /\ ~lookup.config.citizen.numeric
    /\ lookup.ret.cache.rss = Some(lookup.config.rss.value)
    /\ lookup.ret.rss = DEFAULT_RSS_THRESHOLD

\* C13: when the read succeeds, each returned threshold is the stored value
\* if its key has a row and its default otherwise, key by key.
C13_StoredValueOrDefaultPerKey ==
    (ReadStore /\ ~ReadRaised) =>
        /\ ~lookup.ret.raised
        /\ lookup.ret.rss = IF lookup.config.rss.present
                            THEN lookup.config.rss.value ELSE DEFAULT_RSS_THRESHOLD
        /\ lookup.ret.citizen = IF lookup.config.citizen.present
                                THEN lookup.config.citizen.value
                                ELSE DEFAULT_CITIZEN_THRESHOLD

\* one key stored, the other defaulted, in the same call
C13_Witness ==
    /\ ReadStore /\ ~ReadRaised
    /\ lookup.config.rss.present /\ ~lookup.config.citizen.present
    /\ lookup.ret.rss = lookup.config.rss.value
    /\ lookup.ret.rss # DEFAULT_RSS_THRESHOLD
    /\ lookup.ret.citizen = DEFAULT_CITIZEN_THRESHOLD

\* the sum of one count over the results of the run
Total(res, field) ==
    LET F[i \in 0..Len(res)] == IF i = 0 THEN 0 ELSE F[i - 1] + res[i][field]
    IN  F[Len(res)]

\* C14: when a run returns, total_processed, total_stored and
\* duplicates_detected are the sums of items_processed, items_added and
\* duplicates_detected over the results of that run.
C14_CountersAreSumsOverThisRun ==
    last.kind = "return" =>
        /\ stats.total_processed = Total(results, "items_processed")
        /\ stats.total_stored = Total(results, "items_added")
        /\ stats.duplicates_detected = Total(results, "duplicates_detected")

\* a second run returned that stored and found duplicates, after a first run
\* that stored hazards the second run's counters do not contain
C14_Witness ==
    /\ last.kind = "return"
    /\ runs = 2
    /\ stats.total_stored > 0
    /\ stats.duplicates_detected > 0
    /\ Len(hazards) > stats.total_stored

\* C15: the statistics a run reports have both rates 0 when nothing was
\* processed.
C15_RatesZeroWhenNothingProcessed ==
    (task.state = "done" /\ task.statistics[1].total_processed = 0) =>
        /\ task.statistics[1].duplicate_rate_percent = 0
        /\ task.statistics[1].error_rate_percent = 0

\* statistics of a run whose only feed failed: errors counted, nothing processed
C15_Witness ==
    /\ task.state = "done"
    /\ task.statistics[1].total_processed = 0
    /\ task.statistics[1].errors > 0
    /\ task.statistics[1].error_rate_percent = 0

\* the URL is one the gate is meant to reject: a scheme other than
\* http/https, or a host that is localhost, 127.0.0.1, ::1 or in 10.*,
\* 172.16-31.*, 192.168.*
Forbidden(url) ==
    LET host == hostname(Urls[url].netloc)
    IN  \/ Urls[url].scheme \notin {"http", "https"}
        \/ host \in {<<"l", "o", "c", "a", "l", "h", "o", "s", "t">>,
                      <<"1", "2", "7", ".", "0", ".", "0", ".", "1">>,
                      <<":", ":", "1">>}
        \/ PrivateIpPrefix(host)

\* C17: no forbidden URL is accepted by set_feeds or fetched.
C17_NoForbiddenUrlAcceptedOrFetched ==
    /\ \A i \in 1..Len(feeds) : ~Forbidden(feeds[i])
    /\ last.kind \in {"entries", "bozo", "raise"} => ~Forbidden(last.feed_url)

\* title, summary and body hold nothing but whitespace and markup
Blank(entry) ==
    /\ \A i \in 1..Len(entry.title) : IsSpace(entry.title[i]) \/ IsTag(entry.title[i])
    /\ \A i \in 1..Len(entry.summary) : IsSpace(entry.summary[i]) \/ IsTag(entry.summary[i])
    /\ \A i \in 1..Len(entry.content) : IsSpace(entry.content[i]) \/ IsTag(entry.content[i])

\* C18: a blank entry is skipped before classification: the classifier is
\* not invoked, nothing is persisted, the error counter stays.
C18_BlankEntrySkippedBeforeClassification ==
    (EntryStep /\ Blank(LastEntry) /\ ~RaisedInEntry) =>
        /\ last.body.outcome = "skipped_empty"
        /\ Len(hazards) = last.before.hazards
        /\ stats.errors = last.before.stats.errors

\* the log rows a task wrote for one feed
LogsOf(feed_url) == {i \in 1..Len(task.logs) : task.logs[i].feed_url = feed_url}

\* C19: a task that ran to the end wrote exactly one log row for every feed
\* it selected, with the counts of that feed's result.
C19_OneLogPerSelectedFeed ==
    (last.kind = "return" /\ task.state = "done") =>
        \A k \in 1..Len(task.selected) :
            /\ Cardinality(LogsOf(task.selected[k])) = 1
            /\ \A i \in LogsOf(task.selected[k]) :
                  /\ i <= Len(results)
                  /\ task.logs[i].items_processed = results[i].items_processed
                  /\ task.logs[i].items_added = results[i].items_added
                  /\ task.logs[i].duplicates_detected = results[i].duplicates_detected

\* C16: two contents that differ only in letter case or in the amount of
\* whitespace have equal hashes.
C16_HashIgnoresCaseAndWhitespace ==
    hashed.called => hashed.hash_a = hashed.hash_b

\* the first result of the answer is a pair of numbers inside the box,
\* borders included
FirstInsideBox ==
    /\ answer.results # <<>>
    /\ answer.results[1].lat.kind = "number"
    /\ answer.results[1].lon.kind = "number"
    /\ 400 <= answer.results[1].lat.value /\ answer.results[1].lat.value <= 2100
    /\ 11600 <= answer.results[1].lon.value /\ answer.results[1].lon.value <= 12700

\* C20: the geocoder returns the first result's coordinates exactly when
\* they are numbers with 4.0 <= latitude <= 21.0 and
\* 116.0 <= longitude <= 127.0, and None otherwise.
C20_CoordinatesOnlyInsideBox ==
    answer.called =>
        /\ FirstInsideBox =>
              answer.coords = Some([latitude |-> answer.results[1].lat.value,
                                    longitude |-> answer.results[1].lon.value])
        /\ ~FirstInsideBox => answer.coords = None

\* an answer on two borders of the box, accepted
C20_Witness ==
    /\ answer.called
    /\ answer.results # <<>>
    /\ answer.results[1].lat = Field("number", PH_LAT_MAX)
    /\ answer.results[1].lon = Field("number", PH_LON_MIN)
    /\ answer.coords # None

\* C21: get_coordinates_from_nominatim_sync and _async never raise; on a
\* timeout, a network error, an HTTP error status or unparseable JSON they
\* return None, and on an empty, whitespace-only or None location string
\* they return None without sending a request.
C21_GeocodingNeverRaises ==
    geocall.called =>
        /\ ~geocall.ret.raised
        /\ geocall.transport # "ok" => geocall.ret.coords = None
        /\ (geocall.location_string.is_none
            \/ \A i \in 1..Len(geocall.location_string.text) :
                    IsSpace(geocall.location_string.text[i]))
           => ~geocall.ret.requested /\ geocall.ret.coords = None

C21_Witness ==
    /\ geocall.called
    /\ geocall.transport = "timeout"
    /\ geocall.ret.requested
    /\ ~geocall.ret.raised
    /\ geocall.ret.coords = None
    /\ Len(sent) = 2

\* position of a strategy in the order URL, content hash, geospatial
Rank(strategy) == CASE strategy = "url" -> 1 [] strategy = "hash" -> 2 [] OTHER -> 3

\* the stored hazards each strategy matches for the entry of the last step
UrlRows == IF LastEntry.link = "" THEN {} ELSE ByUrl(StoreBefore, LastEntry.link)
HashRows == ByHash(StoreBefore, _generate_content_hash(_extract_content(LastEntry)), clock)
GeoRows ==
    LET location == LastEntry.locations[1]
    IN  IF Truthy(location.latitude) /\ Truthy(location.longitude)
        THEN get_nearby_hazards(StoreBefore, location.latitude[1], location.longitude[1],
                                RADIUS_KM, duplicate_time_window, clock)
        ELSE {}
RowsOf(strategy) ==
    CASE strategy = "url" -> UrlRows [] strategy = "hash" -> HashRows [] OTHER -> GeoRows

\* C22: _check_duplicate consults the strategies in the order URL, content
\* hash, geospatial and stops at the first match: the hash lookup is issued
\* only if the URL lookup found nothing, the geospatial lookup only if both
\* found nothing, and the id returned belongs to a record found by the first
\* matching strategy.
C22_StrategiesInOrderFirstMatchWins ==
    LET dup == last.body.dup
        q == dup.queries
        Asked(strategy) == \E i \in 1..Len(q) : q[i] = strategy
    IN  (EntryStep /\ ReachedDuplicateCheck) =>
            /\ \A i, j \in 1..Len(q) : i < j => Rank(q[i]) < Rank(q[j])
            /\ Asked("hash") => UrlRows = {}
            /\ Asked("geo") => (UrlRows = {} /\ HashRows = {})
            /\ dup.is_duplicate =>
                  /\ q # <<>> /\ dup.strategy = q[Len(q)]
                  /\ \A strategy \in {"url", "hash", "geo"} :
                        Rank(strategy) < Rank(dup.strategy) => RowsOf(strategy) = {}
                  /\ \E i \in RowsOf(dup.strategy) : Some(StoreBefore[i].id) = dup.duplicate_id
            /\ (~dup.is_duplicate /\ ~dup.raised) =>
                  (UrlRows = {} /\ HashRows = {} /\ GeoRows = {})

\* an entry with a link no stored hazard has is reported by the hash
\* strategy, the geospatial lookup not being issued
C22_Witness ==
    /\ EntryStep /\ ReachedDuplicateCheck
    /\ last.body.dup.is_duplicate
    /\ last.body.dup.strategy = "hash"
    /\ last.body.dup.queries = <<"url", "hash">>
    /\ GeoRows = {}

PipelineOrder == <<"extract", "classify", "locate", "dedup", "persist">>

\* C23: for every entry the pipeline steps occur only in the order extract,
\* classify, extract locations, duplicate check, persist: locations are
\* extracted only after classification returned is_hazard, the duplicate
\* check runs only after a non-empty location list is known, and a hazard is
\* inserted only after a duplicate check for that same entry returned
\* not-duplicate.
C23_PipelineStepsInOrder ==
    LET steps == last.body.steps
        Called(step) == \E i \in 1..Len(steps) : steps[i] = step
    IN  EntryStep =>
            /\ Len(steps) >= 1 /\ Len(steps) <= Len(PipelineOrder)
            /\ steps = SubSeq(PipelineOrder, 1, Len(steps))
            /\ Called("locate") => classify(LastEntry, classification_threshold).is_hazard
            /\ Called("dedup") => LastEntry.locations # <<>>
            /\ Called("persist") => ~last.body.dup.is_duplicate
            /\ Len(hazards) > last.before.hazards =>
                  /\ Called("persist")
                  /\ Len(last.body.dup.queries) >= 1
                  /\ Len(hazards) = last.before.hazards + 1
                  /\ hazards[Len(hazards)].source_url = LastEntry.link

C23_Witness ==
    /\ EntryStep
    /\ last.body.steps = PipelineOrder
    /\ Len(hazards) = last.before.hazards + 1
    /\ Len(hazards) = 2

\* the entry of the last step is a hazard candidate with locations
IsCandidate ==
    /\ classify(LastEntry, classification_threshold).is_hazard
    /\ LastEntry.locations # <<>>

\* a stored hazard has the entry's content hash and was detected inside
\* (or before) the window that ends now
HashEqualAt(i) ==
    StoreBefore[i].content_hash = _generate_content_hash(_extract_content(LastEntry))
HashEqualWithinWindow ==
    \E i \in 1..Len(StoreBefore) :
        HashEqualAt(i) /\ StoreBefore[i].detected_at >= clock - duplicate_time_window
HashEqualOnlyEarlier ==
    /\ \E i \in 1..Len(StoreBefore) : HashEqualAt(i)
    /\ \A i \in 1..Len(StoreBefore) :
          HashEqualAt(i) => StoreBefore[i].detected_at < clock - duplicate_time_window

FlaggedDuplicateNotPersisted ==
    /\ last.body.outcome = "duplicate"
    /\ Len(hazards) = last.before.hazards

\* a hash-equal hazard from before the window leaves the verdict to the
\* other two strategies
EarlierHashAloneIsNoDuplicate ==
    (EntryStep /\ IsCandidate /\ HashEqualOnlyEarlier /\ UrlRows = {} /\ GeoRows = {})
    => last.body.outcome # "duplicate"

InsertFailed == EntryStep /\ last.body.save.why \in {"insert_raise", "insert_norow"}

\* C25: when the hazard insert raises or returns no row, the entry is not
\* added to hazards_saved, items_added and total_stored are left unchanged,
\* the run's errors counter is incremented by one, and the loop goes on with
\* the next entry of the feed.
C25_FailedInsertCountedAsError ==
    InsertFailed =>
        /\ cur.hazards_saved = last.before.cur.hazards_saved
        /\ cur.items_added = last.before.cur.items_added
        /\ stats.total_stored = last.before.stats.total_stored
        /\ stats.errors = last.before.stats.errors + 1
        /\ Len(hazards) = last.before.hazards
        /\ pc = "entries"
        /\ entryIdx = last.before.cur.items_processed + 2
        /\ feed[entryIdx - 1] = last.entry

\* the insert of the first entry fails and the second entry is next
C25_Witness ==
    /\ InsertFailed
    /\ last.body.save.why = "insert_norow"
    /\ stats.errors = 1
    /\ entryIdx = 2 /\ entryIdx <= Len(feed)

\* C26: no two persisted hazards share the same non-empty source_url,
\* whatever the sequence of runs, retries and abandoned runs, a scheduled
\* run and a manual run overlapping on the same feed included (no duplicate
\* lookup fails).
C26_NoTwoHazardsShareSourceUrl ==
    \A i, j \in 1..Len(hazards) :
        (i # j /\ hazards[i].source_url # "") =>
            hazards[i].source_url # hazards[j].source_url

\* C27: when two process_all_feeds runs on the shared instance overlap, the
\* statistics returned for each run count only that run's own entries,
\* stored hazards, duplicates and errors.
C27_StatisticsCountOwnRunOnly ==
    \A r \in Requests :
        requests[r].pc = "done" =>
            /\ requests[r].statistics[1].total_processed
                  = Total(requests[r].results, "items_processed")
            /\ requests[r].statistics[1].total_stored
                  = Total(requests[r].results, "items_added")
            /\ requests[r].statistics[1].duplicates_detected
                  = Total(requests[r].results, "duplicates_detected")
            /\ requests[r].statistics[1].errors = requests[r].errors

\* C28: process_single_feed_task fetches and processes only the URL of the
\* requested feed, whatever that URL is: no other feed, and none of
\* DEFAULT_FEEDS, is processed or logged by the task.
C28_SingleFeedTaskProcessesOnlyItsFeed ==
    /\ task.state = "single" =>
          \A i \in 1..Len(runFeeds) : runFeeds[i] = task.selected[1]
    /\ task.state \in {"single", "single_done"} =>
          \A i \in 1..Len(results) : results[i].feed_url = task.selected[1]
    /\ task.state = "single_done" =>
          \A i \in 1..Len(task.logs) : task.logs[i].feed_url = task.selected[1]

\* a stored hazard of another hazard type lies within 5 km and the time
\* window of the entry's first extracted location
OtherTypeNearby ==
    \E i \in GeoRows :
        StoreBefore[i].hazard_type # hazard_type_mapping(LastEntry.hazard_type)

C30_RatesBetween0And100 ==
    \A r \in Requests :
        requests[r].statistics # None =>
            /\ requests[r].statistics[1].duplicate_rate_percent >= 0
            /\ requests[r].statistics[1].duplicate_rate_percent <= 10000
            /\ requests[r].statistics[1].error_rate_percent >= 0
            /\ requests[r].statistics[1].error_rate_percent <= 10000

====
